---------------------------- MODULE Spec2Model ----------------------------
(***************************************************************************)
(* A model of convert_to_parquet.py: main() walks the three fixed phases,  *)
(* and for every phase whose data.json exists convert_json_to_parquet()    *)
(* loads the records, estimates the per-record size from a sampling file,  *)
(* and writes either data.parquet or the numbered chunk files.             *)
(*                                                                         *)
(* Sizes are counted in KiB: a value K of a *_mb variable stands for       *)
(* K/1024 MB, and the arithmetic of lines 36-40 is done on integers.  The  *)
(* floats of Python give the same records_per_chunk unless the quotient of *)
(* line 40 is exactly an integer q, where rounding may give q - 1 instead: *)
(* there the model allows both.                                            *)
(*                                                                         *)
(* A dataset is described by its record count and by the serialized size   *)
(* of its records: the first headLen records take headSize each, the rest  *)
(* tailSize each.  Record k of the input is identified by its index k, a   *)
(* file's content is the slice [lo, hi) of record indices it was written   *)
(* from (df.head, df.iloc and the whole frame are all slices).             *)
(*                                                                         *)
(* Every output directory starts empty.  The chunk loop writes the files   *)
(* of index 0, 1, 2, ... in turn and nothing deletes them, so a phase      *)
(* directory is described by the number of chunk files it holds and by the *)
(* total their names carry.                                                *)
(*                                                                         *)
(* Faults: reading the input fails on malformed JSON; writing or measuring *)
(* a Parquet file may fail, leaving the file behind or not.  Creating a    *)
(* directory and removing the sampling file are taken to succeed.  The     *)
(* console output is not modelled.                                         *)
(***************************************************************************)
EXTENDS Integers, Sequences, FiniteSets

\* ------------------------------------------------------------ constants
\* len(sys.argv) of a well-formed call (line 72)
ArgCount == 3
\* default max_size_mb of convert_json_to_parquet (line 14), in MB
MaxSizeMB == 9
\* KiB in a MB (line 36 divides the bytes by 1024 * 1024)
KiB == 1024
\* the sample takes at most this many records (line 32)
SampleMax == 100
\* width of the zero-padded fields of a chunk name, {i:05d} (line 62)
PadWidth == 5
\* phases of main (line 87)
phases == << "parsing-phase", "name_resolution-phase", "type_inference-phase" >>

\* --------------------------------------------------------------- bounds
\* datasets sampled in full hold 0..MaxRecords records
MaxRecords == 5
\* datasets longer than the sample hold SampleMax+1 .. SampleMax+MaxExtra records
MaxExtra == 1
\* fixed cost of a Parquet file (footer, schema), 0..MaxOverhead KiB
MaxOverhead == 1
\* the long datasets hold 10^PadWidth - 1 + (1..MaxLong) records
MaxLong == 2

VARIABLES
    pc,                 \* position of main / convert_json_to_parquet
    phase,              \* index into phases of the for loop (line 92)
    input,              \* per phase: content of <input_dir>/<phase>/data.json
    overhead,           \* fixed size of every Parquet file written
    fs,                 \* per phase: content of <output_dir>/<phase>
    data,               \* the loaded records (lines 20-26)
    sample_size,        \* line 32
    sample_size_mb,     \* line 36, in KiB
    records_per_chunk,  \* line 40
    num_chunks,         \* line 54
    i,                  \* line 57
    output_files,       \* length of the list of paths built (lines 51, 55, 67)
    total_files,        \* line 89
    total_size_mb,      \* line 90, in KiB
    err,                \* the exception that ended the run, "none" if none
    errLine             \* the source line that raised it, 0 if none

vars == << pc, phase, input, overhead, fs, data, sample_size, sample_size_mb,
           records_per_chunk, num_chunks, i, output_files, total_files,
           total_size_mb, err, errLine >>

locals == << data, sample_size, sample_size_mb, records_per_chunk, num_chunks,
             i, output_files >>

\* ------------------------------------------------------------ helpers
Min(a, b) == IF a <= b THEN a ELSE b

Phases == 1..Len(phases)

Content(kind, n, hl, hs, ts) ==
    [kind |-> kind, n |-> n, headLen |-> hl, headSize |-> hs, tailSize |-> ts]

\* no data.json / a data.json that does not parse / no records loaded
Absent == Content("absent", 0, 0, 0, 0)
Malformed == Content("malformed", 0, 0, 0, 0)
NoData == Content("none", 0, 0, 0, 0)

\* a JSON array of n records
DataSet(n, hl, hs, ts) == Content("records", n, hl, hs, ts)

\* serialized sizes of one record, in KiB: about 0.25, 2.7, 2.9, 4.1, 8.5 MB
RecordSizes == {259, 2764, 2970, 4198, 8704}

\* datasets that fit the sample: all records of one size
SmallDataSets ==
    { DataSet(n, 0, s, s) : n \in 1..MaxRecords, s \in RecordSizes }
        \cup { DataSet(0, 0, 1, 1) }

\* datasets longer than the sample: small records, possibly followed by big ones
LongerDataSets ==
    { DataSet(SampleMax + k, SampleMax, 100, t) :
        k \in 1..MaxExtra, t \in {100, 9000} }

\* 10^PadWidth: the first number that does not fit a padded field
RECURSIVE Pow10(_)
Pow10(w) == IF w = 0 THEN 1 ELSE 10 * Pow10(w - 1)

\* datasets of about 10^PadWidth records cut into chunks of one record:
\* SampleMax big records, then small ones
LongDataSets ==
    { DataSet(Pow10(PadWidth) - 1 + k, SampleMax, 4198, 1) : k \in 1..MaxLong }

EmptyDir == [dir |-> FALSE, temp |-> FALSE, single |-> FALSE, chunks |-> 0, of |-> 0]

\* os.path.getsize of a Parquet file holding the records [lo, hi) of d
SizeOf(d, lo, hi) ==
    LET headCnt == Min(hi, d.headLen) - Min(lo, d.headLen)
        tailCnt == (hi - lo) - headCnt
    IN  overhead + headCnt * d.headSize + tailCnt * d.tailSize

\* the values int(num / den) may take when computed in floats
FloatFloor(num, den) ==
    LET q == num \div den
    IN  IF num % den = 0 /\ q > 0 THEN {q - 1, q} ELSE {q}

\* int((max_size_mb * 0.9) / (sample_size_mb / sample_size)), lines 39-40,
\* with sample_size_mb given in KiB: the values records_per_chunk may take
RecordsPerChunkPerHundred(max_size_mb, size_mb, size) ==
    FloatFloor(max_size_mb * 9 * KiB * SampleMax, 10 * size_mb)
RecordsPerChunk(max_size_mb, size_mb, size) ==
    FloatFloor(max_size_mb * 9 * KiB * size, 10 * size_mb)

\* math.ceil(a / b), line 54
CeilTruncates(a, b) == a \div b
Ceil(a, b) == IF a % b = 0 THEN a \div b ELSE (a \div b) + 1

\* start_idx of chunk k, line 58
StartIdxSkipsOne(k, rpc) == k * rpc + 1
StartIdx(k, rpc) == k * rpc

\* end_idx of chunk k, line 59
EndIdx(k, rpc, n) == Min((k + 1) * rpc, n)

\* ------------------------------------------------------------ file names
\* the decimal digits of x, most significant first, as character codes
RECURSIVE Digits(_)
Digits(x) == IF x < 10 THEN << 48 + x >> ELSE Append(Digits(x \div 10), 48 + (x % 10))

RECURSIVE PadLeft(_, _)
PadLeft(s, w) == IF Len(s) >= w THEN s ELSE PadLeft(<< 48 >> \o s, w)

\* f"{x:05d}"
PadUnpadded(x) == Digits(x)
Pad(x) == PadLeft(Digits(x), PadWidth)

\* "data-", "-of-", ".parquet" as character codes
StrData == << 100, 97, 116, 97, 45 >>
StrOf == << 45, 111, 102, 45 >>
StrExt == << 46, 112, 97, 114, 113, 117, 101, 116 >>

\* f"data-{i:05d}-of-{num_chunks:05d}.parquet", line 62
ChunkName(k, total) == StrData \o Pad(k) \o StrOf \o Pad(total) \o StrExt

\* "data.parquet", line 47
SingleName == << 100, 97, 116, 97 >> \o StrExt

\* ------------------------------------------------------------ the program
\* an uncaught exception: the interpreter prints the traceback and exits
RaiseSwallowed(e, line) ==
    /\ pc' = "return"
    /\ err' = e
    /\ errLine' = line
Raise(e, line) ==
    /\ pc' = "aborted"
    /\ err' = e
    /\ errLine' = line

Inputs == SmallDataSets \cup LongerDataSets \cup {Absent, Malformed}

InitRest ==
    /\ pc = "start"
    /\ phase = 1
    /\ overhead \in 0..MaxOverhead
    /\ fs = [p \in Phases |-> EmptyDir]
    /\ data = NoData
    /\ sample_size = 0
    /\ sample_size_mb = 0
    /\ records_per_chunk = 0
    /\ num_chunks = 0
    /\ i = 0
    /\ output_files = 0
    /\ total_files = 0
    /\ total_size_mb = 0
    /\ err = "none"
    /\ errLine = 0

Init ==
    /\ input \in [Phases -> Inputs]
    /\ InitRest

\* lines 72-84: the argument count and the input directory are checked
Start ==
    /\ pc = "start"
    /\ \E argc \in {ArgCount - 1, ArgCount},
          exists \in {TRUE} \cup
                     (IF \A p \in Phases : input[p] = Absent THEN {FALSE} ELSE {}) :
          pc' = IF argc # ArgCount \/ ~exists THEN "exit1" ELSE "for"
    /\ UNCHANGED << phase, input, overhead, fs, locals, total_files,
                    total_size_mb, err, errLine >>

\* lines 92-96: the phase's data.json is missing, the phase is skipped
SkipPhaseOpens ==
    /\ pc = "for"
    /\ phase \in Phases
    /\ input[phase] = Absent
    /\ Raise("FileNotFoundError", 20)
    /\ UNCHANGED << phase, input, overhead, fs, locals, total_files, total_size_mb >>
SkipPhase ==
    /\ pc = "for"
    /\ phase \in Phases
    /\ input[phase] = Absent
    /\ phase' = phase + 1
    /\ UNCHANGED << pc, input, overhead, fs, locals, total_files,
                    total_size_mb, err, errLine >>

\* lines 98-99, 17-26: convert_json_to_parquet is called and loads the records
Load ==
    /\ pc = "for"
    /\ phase \in Phases
    /\ input[phase] \notin {Absent, Malformed}
    /\ data' = input[phase]
    /\ pc' = "mkdir"
    /\ UNCHANGED << phase, input, overhead, fs, sample_size, sample_size_mb,
                    records_per_chunk, num_chunks, i, output_files,
                    total_files, total_size_mb, err, errLine >>

\* line 21: json.load raises on malformed JSON
LoadFail ==
    /\ pc = "for"
    /\ phase \in Phases
    /\ input[phase] = Malformed
    /\ Raise("JSONDecodeError", 21)
    /\ UNCHANGED << phase, input, overhead, fs, locals, total_files, total_size_mb >>

\* line 29
MakeDirs ==
    /\ pc = "mkdir"
    /\ fs' = [fs EXCEPT ![phase].dir = TRUE]
    /\ pc' = "sample"
    /\ UNCHANGED << phase, input, overhead, locals, total_files,
                    total_size_mb, err, errLine >>

\* lines 32-35: the sample is written to temp_sample.parquet
WriteSample ==
    /\ pc = "sample"
    /\ sample_size' = Min(SampleMax, data.n)
    /\ fs' = [fs EXCEPT ![phase].temp = TRUE]
    /\ pc' = "measure"
    /\ UNCHANGED << phase, input, overhead, data, sample_size_mb,
                    records_per_chunk, num_chunks, i, output_files,
                    total_files, total_size_mb, err, errLine >>

\* line 35: to_parquet raises, before or after it created the file
WriteSampleFail ==
    /\ pc = "sample"
    /\ sample_size' = Min(SampleMax, data.n)
    /\ \E created \in BOOLEAN : fs' = [fs EXCEPT ![phase].temp = created]
    /\ Raise("OSError", 35)
    /\ UNCHANGED << phase, input, overhead, data, sample_size_mb,
                    records_per_chunk, num_chunks, i, output_files,
                    total_files, total_size_mb >>

\* lines 36-37: the sampling file is measured and removed
Measure ==
    /\ pc = "measure"
    /\ sample_size_mb' = SizeOf(data, 0, sample_size)
    /\ fs' = [fs EXCEPT ![phase].temp = FALSE]
    /\ pc' = "estimate"
    /\ UNCHANGED << phase, input, overhead, data, sample_size,
                    records_per_chunk, num_chunks, i, output_files,
                    total_files, total_size_mb, err, errLine >>

\* line 36: os.path.getsize raises
MeasureFail ==
    /\ pc = "measure"
    /\ Raise("OSError", 36)
    /\ UNCHANGED << phase, input, overhead, fs, locals, total_files, total_size_mb >>

\* lines 39-40 (a Parquet file of one record or more is never empty, so
\* line 40 does not divide by zero)
Estimate ==
    /\ pc = "estimate"
    /\ sample_size # 0
    /\ records_per_chunk' \in RecordsPerChunk(MaxSizeMB, sample_size_mb, sample_size)
    /\ pc' = "branch"
    /\ UNCHANGED << phase, input, overhead, fs, data, sample_size,
                    sample_size_mb, num_chunks, i, output_files,
                    total_files, total_size_mb, err, errLine >>

\* line 39: sample_size_mb / 0
EstimateFailDefaults ==
    /\ pc = "estimate"
    /\ sample_size = 0
    /\ records_per_chunk' = 0
    /\ pc' = "branch"
    /\ UNCHANGED << phase, input, overhead, fs, data, sample_size,
                    sample_size_mb, num_chunks, i, output_files,
                    total_files, total_size_mb, err, errLine >>
EstimateFail ==
    /\ pc = "estimate"
    /\ sample_size = 0
    /\ Raise("ZeroDivisionError", 39)
    /\ UNCHANGED << phase, input, overhead, fs, locals, total_files, total_size_mb >>

\* line 45
SinglePathStrict == data.n < records_per_chunk
SinglePath == data.n <= records_per_chunk

\* lines 45-51: the whole dataset goes to data.parquet
WriteSingle ==
    /\ pc = "branch"
    /\ SinglePath
    /\ fs' = [fs EXCEPT ![phase].single = TRUE]
    /\ output_files' = 1
    /\ pc' = "return"
    /\ UNCHANGED << phase, input, overhead, data, sample_size, sample_size_mb,
                    records_per_chunk, num_chunks, i, total_files,
                    total_size_mb, err, errLine >>

\* lines 48-49: to_parquet or getsize raises
WriteSingleFail ==
    /\ pc = "branch"
    /\ SinglePath
    /\ \E created \in BOOLEAN : fs' = [fs EXCEPT ![phase].single = created]
    /\ Raise("OSError", 48)
    /\ UNCHANGED << phase, input, overhead, locals, total_files, total_size_mb >>

\* lines 52-55
Plan ==
    /\ pc = "branch"
    /\ ~SinglePath
    /\ records_per_chunk # 0
    /\ num_chunks' = Ceil(data.n, records_per_chunk)
    /\ i' = 0
    /\ output_files' = 0
    /\ pc' = "chunk"
    /\ UNCHANGED << phase, input, overhead, fs, data, sample_size,
                    sample_size_mb, records_per_chunk, total_files,
                    total_size_mb, err, errLine >>

\* line 54: len(data) / 0
PlanFail ==
    /\ pc = "branch"
    /\ ~SinglePath
    /\ records_per_chunk = 0
    /\ Raise("ZeroDivisionError", 54)
    /\ UNCHANGED << phase, input, overhead, fs, locals, total_files, total_size_mb >>

\* lines 57-67: chunk i is written to data-<i>-of-<num_chunks>.parquet
WriteChunk ==
    /\ pc = "chunk"
    /\ i < num_chunks
    /\ fs' = [fs EXCEPT ![phase].chunks = i + 1, ![phase].of = num_chunks]
    /\ output_files' = output_files + 1
    /\ i' = i + 1
    /\ UNCHANGED << pc, phase, input, overhead, data, sample_size,
                    sample_size_mb, records_per_chunk, num_chunks,
                    total_files, total_size_mb, err, errLine >>

\* lines 63-65: to_parquet or getsize raises
WriteChunkFail ==
    /\ pc = "chunk"
    /\ i < num_chunks
    /\ \E created \in BOOLEAN :
          fs' = [fs EXCEPT ![phase].chunks = IF created THEN i + 1 ELSE i,
                           ![phase].of = IF created \/ i > 0 THEN num_chunks ELSE 0]
    /\ Raise("OSError", 63)
    /\ UNCHANGED << phase, input, overhead, locals, total_files, total_size_mb >>

\* line 69
ReturnChunks ==
    /\ pc = "chunk"
    /\ i = num_chunks
    /\ pc' = "return"
    /\ UNCHANGED << phase, input, overhead, fs, locals, total_files,
                    total_size_mb, err, errLine >>

\* the files convert_json_to_parquet returned: their slices and sizes
FileLo(k) == IF num_chunks = 0 THEN 0 ELSE StartIdx(k, records_per_chunk)
FileHi(k) == IF num_chunks = 0 THEN data.n ELSE EndIdx(k, records_per_chunk, data.n)
FileName(k) == IF num_chunks = 0 THEN SingleName ELSE ChunkName(k, num_chunks)
FileSize(k) == SizeOf(data, FileLo(k), FileHi(k))

\* sum(os.path.getsize(f) for f in files[lo:hi]), line 101
RECURSIVE SumSizes(_, _)
SumSizes(lo, hi) ==
    IF hi <= lo THEN 0
    ELSE IF hi = lo + 1 THEN FileSize(lo)
    ELSE LET mid == (lo + hi) \div 2 IN SumSizes(lo, mid) + SumSizes(mid, hi)

\* lines 101-106: the totals take the phase's files, the loop goes on
Account ==
    /\ pc = "return"
    /\ total_files' = total_files + output_files
    /\ total_size_mb' = total_size_mb + SumSizes(0, output_files)
    /\ phase' = phase + 1
    /\ pc' = "for"
    /\ data' = NoData
    /\ sample_size' = 0
    /\ sample_size_mb' = 0
    /\ records_per_chunk' = 0
    /\ num_chunks' = 0
    /\ i' = 0
    /\ output_files' = 0
    /\ UNCHANGED << input, overhead, fs, err, errLine >>

\* lines 108-110
Finish ==
    /\ pc = "for"
    /\ phase \notin Phases
    /\ pc' = "done"
    /\ UNCHANGED << phase, input, overhead, fs, locals, total_files,
                    total_size_mb, err, errLine >>

Next ==
    \/ Start
    \/ SkipPhase
    \/ Load
    \/ LoadFail
    \/ MakeDirs
    \/ WriteSample
    \/ WriteSampleFail
    \/ Measure
    \/ MeasureFail
    \/ Estimate
    \/ EstimateFail
    \/ WriteSingle
    \/ WriteSingleFail
    \/ Plan
    \/ PlanFail
    \/ WriteChunk
    \/ WriteChunkFail
    \/ ReturnChunks
    \/ Account
    \/ Finish

Spec == Init /\ [][Next]_vars

\* the long datasets: one phase holds one, the other phases are missing
InitLong ==
    /\ \E d \in LongDataSets : input = [p \in Phases |-> IF p = 1 THEN d ELSE Absent]
    /\ InitRest

SpecLong == (Init \/ InitLong) /\ [][Next]_vars

\* ------------------------------------------------------------ properties
\* Python's order of two strings: the first differing character decides,
\* a proper prefix comes first
LexLess(a, b) ==
    LET m == Min(Len(a), Len(b))
        D == { k \in 1..m : a[k] # b[k] }
    IN  IF D = {} THEN Len(a) < Len(b)
        ELSE LET k == CHOOSE x \in D : \A y \in D : x <= y IN a[k] < b[k]

\* the number a string of decimal digits stands for
RECURSIVE Value(_)
Value(s) ==
    IF s = << >> THEN 0
    ELSE 10 * Value(SubSeq(s, 1, Len(s) - 1)) + (s[Len(s)] - 48)

IsDigits(s) == \A k \in 1..Len(s) : s[k] \in 48..57

\* x written with at least PadWidth digits, zeros filling on the left only
\* as far as the width asks
IsPadded(s, x) ==
    /\ IsDigits(s)
    /\ Value(s) = x
    /\ Len(s) >= PadWidth
    /\ (Len(s) > PadWidth => s[1] # 48)

\* the place of the "-" that ends the index field of a chunk name
OfPos(name) ==
    CHOOSE p \in (Len(StrData) + 1)..Len(name) :
        /\ name[p] = 45
        /\ \A q \in (Len(StrData) + 1)..(p - 1) : name[q] # 45

\* name is data-<k padded>-of-<total padded>.parquet
IsChunkName(name, k, total) ==
    /\ Len(name) > Len(StrData) + Len(StrOf) + Len(StrExt)
    /\ SubSeq(name, 1, Len(StrData)) = StrData
    /\ \E p \in (Len(StrData) + 1)..Len(name) : name[p] = 45
    /\ LET p == OfPos(name)
           e == Len(name) - Len(StrExt)
       IN  /\ IsPadded(SubSeq(name, Len(StrData) + 1, p - 1), k)
           /\ SubSeq(name, p, p + Len(StrOf) - 1) = StrOf
           /\ IsPadded(SubSeq(name, p + Len(StrOf), e), total)
           /\ SubSeq(name, e + 1, Len(name)) = StrExt

\* convert_json_to_parquet has just returned its list of files
Returned == pc = "return"

\* the files returned, taken by index, cover the records 0..n-1 slice after
\* slice, none of them empty
FilesTileInput ==
    /\ output_files >= 1
    /\ FileLo(0) = 0
    /\ FileHi(output_files - 1) = data.n
    /\ \A k \in 0..(output_files - 1) : FileLo(k) < FileHi(k)
    /\ \A k \in 1..(output_files - 1) : FileLo(k) = FileHi(k - 1)

\* the files returned, taken by index, have strictly increasing names: sorting
\* them by name gives them by index
FilesInNameOrder ==
    \A k \in 1..(output_files - 1) : LexLess(FileName(k - 1), FileName(k))

\* the files the phase directory holds are the files returned
FilesOnDisk ==
    IF num_chunks = 0
    THEN fs[phase].single /\ fs[phase].chunks = 0 /\ output_files = 1
    ELSE /\ ~fs[phase].single
         /\ fs[phase].chunks = num_chunks
         /\ fs[phase].of = num_chunks
         /\ output_files = num_chunks

\* C1 as stated: after convert_json_to_parquet returns, the records of the
\* written files, concatenated in file-name order, are the input records:
\* in file-name order the files are the consecutive slices of the input.
C1_CompletenessAnyCount ==
    (Returned /\ data.n > 0 /\ records_per_chunk > 0)
        => (FilesOnDisk /\ FilesTileInput /\ FilesInNameOrder)

\* C1 as amended: the same, for a call that writes at most 10^5 files.
C1_Completeness ==
    (Returned /\ data.n > 0 /\ records_per_chunk > 0
        /\ num_chunks <= Pow10(PadWidth))
        => (FilesOnDisk /\ FilesTileInput /\ FilesInNameOrder)

C1_Witness ==
    /\ Returned
    /\ num_chunks = Pow10(PadWidth)
    /\ fs[phase].chunks = num_chunks

\* C2: a computed records_per_chunk of zero or less ends the call in an
\* explicit degenerate-sizing error, never in a division by zero.
C2_DegenerateGuard ==
    (pc = "aborted" /\ errLine > 40 /\ records_per_chunk <= 0)
        => (err = "DegenerateSizingError" /\ err # "ZeroDivisionError")

\* the call of convert_json_to_parquet for the current phase has ended
CallEnded == pc \in {"return", "aborted", "for", "done"}

\* C3: when the call ends, however it ends, no temp_sample.parquet is left
\* in an output directory.
C3_TempRemoved ==
    CallEnded => \A p \in Phases : ~fs[p].temp

\* all records of the loaded dataset have the size s
UniformSize(s) ==
    /\ data.headLen < data.n => data.tailSize = s
    /\ data.headLen > 0 => data.headSize = s

\* C4: when all records have one size and the sample estimate (the sampling
\* file's size over its record count) is that size, every file written, on
\* either path, is at most max_size_mb big.
C4_SizeBound ==
    LET s == IF data.headLen > 0 THEN data.headSize ELSE data.tailSize
    IN  (pc \in {"chunk", "return"} /\ UniformSize(s)
            /\ sample_size_mb = s * sample_size)
            => \A k \in 0..(output_files - 1) : FileSize(k) <= MaxSizeMB * KiB

C4_Witness ==
    /\ Returned
    /\ UniformSize(2764)
    /\ sample_size_mb = 2764 * sample_size
    /\ num_chunks = 2
    /\ records_per_chunk = 3
    /\ FileSize(0) = 3 * 2764
    /\ FileSize(1) = 2764

\* C5: with record count > records_per_chunk > 0 the call writes exactly
\* ceil(count / records_per_chunk) chunk files; chunk k holds the records
\* [k * rpc, min((k+1) * rpc, count)): rpc records in every chunk but the
\* last, 1..rpc in the last; 1000 records at 300 a chunk give 300, 300,
\* 300, 100.
C5_ChunkCount ==
    /\ (Returned /\ data.n > records_per_chunk /\ records_per_chunk > 0)
        => /\ fs[phase].chunks = num_chunks
           /\ output_files = num_chunks
           /\ (num_chunks - 1) * records_per_chunk < data.n
           /\ data.n <= num_chunks * records_per_chunk
           /\ \A k \in 0..(num_chunks - 1) :
                 /\ FileLo(k) = k * records_per_chunk
                 /\ FileHi(k) = Min((k + 1) * records_per_chunk, data.n)
                 /\ k < num_chunks - 1 => FileHi(k) - FileLo(k) = records_per_chunk
                 /\ k = num_chunks - 1 =>
                        FileHi(k) - FileLo(k) \in 1..records_per_chunk
    /\ Ceil(1000, 300) = 4
    /\ \A k \in 0..3 :
          EndIdx(k, 300, 1000) - StartIdx(k, 300) = IF k < 3 THEN 300 ELSE 100

C5_Witness ==
    /\ Returned
    /\ num_chunks = 2
    /\ records_per_chunk = 3
    /\ data.n = 4
    /\ FileHi(1) - FileLo(1) = 1

\* the size of a file holding the whole loaded dataset
FullSize == SizeOf(data, 0, data.n)

\* C6 as stated: a dataset whose full serialized size is under max_size_mb
\* gives exactly one file, data.parquet, and no numbered chunk.
C6_SingleUnderLimit ==
    (Returned /\ FullSize < MaxSizeMB * KiB)
        => (fs[phase].single /\ fs[phase].chunks = 0 /\ output_files = 1)

\* C6 as amended: a dataset of at most 100 records whose full serialized
\* size is at most 90% of max_size_mb never takes the chunk path, and a
\* call that returns has written exactly data.parquet.
C6_SingleUnderBudget ==
    (data.kind = "records" /\ data.n <= SampleMax
        /\ 10 * FullSize <= 9 * MaxSizeMB * KiB)
        => /\ pc # "chunk"
           /\ fs[phase].chunks = 0
           /\ Returned =>
                (fs[phase].single /\ output_files = 1 /\ num_chunks = 0)

C6_Witness ==
    /\ Returned
    /\ data.n = 3
    /\ 10 * FullSize <= 9 * MaxSizeMB * KiB
    /\ 10 * (FullSize + 2) > 9 * MaxSizeMB * KiB
    /\ fs[phase].single
    /\ fs[phase].chunks = 0

\* the number of output files in the directory of phase p
FilesIn(p) == (IF fs[p].single THEN 1 ELSE 0) + fs[p].chunks

RECURSIVE SumFilesIn(_)
SumFilesIn(p) == IF p = 0 THEN 0 ELSE FilesIn(p) + SumFilesIn(p - 1)

\* C7: whichever phases lack their data.json, a missing phase never ends the
\* run and gets no file; the phases are taken in the fixed order; and a run
\* that completes has converted every phase present and reports as total
\* the number of files written.
C7_MissingPhases ==
    /\ pc = "aborted" => input[phase] # Absent
    /\ \A p \in Phases : input[p] = Absent => fs[p] = EmptyDir
    /\ (pc = "for" /\ phase \in Phases /\ input[phase] = Absent)
          => ENABLED SkipPhase
    /\ pc \notin {"start", "exit1"} =>
          /\ \A p \in Phases : p > phase => fs[p] = EmptyDir
          /\ \A p \in Phases : (p < phase /\ input[p] # Absent) => FilesIn(p) >= 1
          /\ pc = "for" => total_files = SumFilesIn(Len(phases))
    /\ (pc = "for" /\ phase \notin Phases) => ENABLED Finish
    /\ pc = "done" =>
          /\ phase = Len(phases) + 1
          /\ err = "none"
          /\ total_files = SumFilesIn(Len(phases))

C7_Witness ==
    /\ pc = "done"
    /\ input[1] = Absent
    /\ input[2] # Absent
    /\ input[3] = Absent
    /\ total_files = 3
    /\ fs[2].chunks = 3

\* no file of the output tree is lost in the step
FilesKept ==
    \A p \in Phases :
        /\ fs[p].dir => fs'[p].dir
        /\ fs[p].temp => fs'[p].temp
        /\ fs[p].single => fs'[p].single
        /\ fs'[p].chunks >= fs[p].chunks

\* C9: the first fatal error ends the run: the step that raises it loses no
\* file, and from then on nothing is written, no phase is started, nothing
\* is retried and the completion report is never reached.
C9_AbortOnFirstError ==
    /\ [](err # "none" => pc = "aborted")
    /\ [][(err = "none" /\ err' # "none") => FilesKept]_vars
    /\ [][err # "none" =>
            /\ fs' = fs
            /\ phase' = phase
            /\ pc' = "aborted"
            /\ total_files' = total_files
            /\ err' = err]_vars

C9_Witness ==
    /\ pc = "aborted"
    /\ errLine = 63
    /\ fs[phase].chunks = 2
    /\ i = 1
    /\ phase = 1
    /\ input[2] # Absent
    /\ input[2] # Malformed
    /\ fs[2] = EmptyDir

\* C8 as stated: whatever the chunk count, chunk k is written to
\* data-<k padded to 5 digits>-of-<count padded to 5 digits>.parquet, and the
\* names sort in the order of the indices: the name of the chunk just written
\* comes after the name of the chunk before it and after the first one, so
\* the names are strictly increasing, hence distinct.
NameOfLastChunk ==
    LET k == i - 1
    IN  /\ fs[phase].chunks = i
        /\ fs[phase].of = num_chunks
        /\ IsChunkName(ChunkName(k, num_chunks), k, num_chunks)
        /\ k > 0 => /\ LexLess(ChunkName(k - 1, num_chunks), ChunkName(k, num_chunks))
                    /\ LexLess(ChunkName(0, num_chunks), ChunkName(k, num_chunks))

C8_NamingAnyCount ==
    (pc = "chunk" /\ i > 0) => NameOfLastChunk

\* C8 as amended: the same, for a chunk count of at most 10^5.
C8_Naming ==
    (pc = "chunk" /\ i > 0 /\ num_chunks <= Pow10(PadWidth)) => NameOfLastChunk

C8_Witness ==
    /\ pc = "chunk"
    /\ i = num_chunks
    /\ num_chunks = Pow10(PadWidth)
    /\ ChunkName(i - 1, num_chunks) =
          StrData \o << 57, 57, 57, 57, 57 >> \o StrOf
            \o << 49, 48, 48, 48, 48, 48 >> \o StrExt

=============================================================================
